---- MODULE Spec2Model ----
(***************************************************************************)
(* BlueDocs backend: conflict detection (services/conflict_engine.py),     *)
(* risk scoring (services/scorer.py), relocation search                    *)
(* (services/recommender.py) and the request pipeline (routes/analysis.py).*)
(*                                                                         *)
(* Units.  Python floats are modelled in fixed point:                      *)
(*   scores            thousandths of a risk point  (52.5  -> 52500)       *)
(*   overlap_area_km2  tenths of a km^2             (223.0 -> 2230)        *)
(*   distance_km       tenths of a km                                      *)
(*   latitude/longitude  1e-4 degree                (40.0  -> 400000)      *)
(*   intersection.area   1e-3 square degree                                *)
(*   distance (degrees)  1e-3 degree                                       *)
(* Python's None is the empty set, a present value x is {x}.               *)
(***************************************************************************)
EXTENDS Integers, Sequences, FiniteSets, TLC

VARIABLES
    pc,               \* position of the running call
    layers,           \* geodata.layers: the snapshot, in dict insertion order
    geo,              \* the geometry engine's answers for the detector call on the site
    probe,            \* the (lat, lon, radius_km) of the last detector call
    conflicts,        \* the conflict list (input of the scorer, output of the detector)
    risk_score,       \* compute_risk_score(...)[0]
    risk_level,       \* compute_risk_score(...)[1]
    prev_score,       \* the result for the list before the last append
    prev_level,
    lat, lon, radius_km, original_score,   \* arguments of find_recommendation
    cand,             \* number of candidates the search loops have consumed (0..24)
    best_score, best_lat, best_lon, best_reasoning,
    best_geo,         \* the geometry engine's answers at (best_lat, best_lon), once improved
    rec,              \* the Recommendation returned
    detector_calls,   \* engine.check_conflicts invocations of the running search
    scorer_calls,     \* compute_risk_score invocations of the running search
    min_seen,         \* history: lowest score an evaluated candidate had, {} if none
    min_seen_at       \* history: first candidate (1..24) that had min_seen, 0 if none

vars == <<pc, layers, geo, probe, conflicts, risk_score, risk_level, prev_score, prev_level,
          lat, lon, radius_km, original_score, cand, best_score, best_lat, best_lon,
          best_reasoning, best_geo, rec, detector_calls, scorer_calls, min_seen,
          min_seen_at>>

None == {}
Some(x) == {x}
Get(o) == CHOOSE x \in o : TRUE

Min(a, b) == IF a <= b THEN a ELSE b
Max(a, b) == IF a >= b THEN a ELSE b

(***************************************************************************)
(* services/scorer.py                                                      *)
(***************************************************************************)

\* _WEIGHTS.get(c.severity, 5)
Weight(severity) ==
    CASE severity = "critical" -> 35
      [] severity = "warning"  -> 15
      [] severity = "info"     -> 5
      [] OTHER                 -> 5

\* _LAYER_MULTIPLIERS.get(c.layer_id, 1.0), in tenths
LayerMultiplier(layer_id) ==
    CASE layer_id = "marine-protected-areas" -> 15
      [] layer_id = "shipping-lanes"         -> 12
      [] layer_id = "submarine-cables"       -> 10
      [] layer_id = "wind-leases"            -> 8
      [] OTHER                               -> 10

AreaBonusUnguarded(c) ==
    IF c.overlap_area_km2 # None
    THEN Min(Get(c.overlap_area_km2) * 2, 10000)
    ELSE 0

\* if c.overlap_area_km2 and c.overlap_area_km2 > 0: raw += min(area / 50.0, 10.0)
\* (None and 0.0 are falsy; area/50 of a/10 km^2 is 2a thousandths)
AreaBonus(c) ==
    IF c.overlap_area_km2 # None /\ Get(c.overlap_area_km2) # 0
       /\ Get(c.overlap_area_km2) > 0
    THEN Min(Get(c.overlap_area_km2) * 2, 10000)
    ELSE 0

\* the for loop of compute_risk_score: raw after the whole list
RECURSIVE RawScore(_)
RawScore(cs) ==
    IF cs = <<>> THEN 0
    ELSE RawScore(SubSeq(cs, 1, Len(cs) - 1))
         + Weight(cs[Len(cs)].severity) * LayerMultiplier(cs[Len(cs)].layer_id) * 100
         + AreaBonus(cs[Len(cs)])

ClampNoCeiling(raw) == Max(raw, 0)

\* score = min(max(raw, 0.0), 100.0)
Clamp(raw) == Min(Max(raw, 0), 100000)

\* the if/elif chain on the clamped, not yet rounded score
LevelOf(score) ==
    IF score >= 75000 THEN "critical"
    ELSE IF score >= 50000 THEN "high"
    ELSE IF score >= 25000 THEN "medium"
    ELSE "low"

\* round(score, 1) for score >= 0: the nearest tenth.  A float sum is never exactly
\* on a decimal tie and falls on either side of it; the fixed-point value that is
\* on one goes to the even tenth.  No list of ConflictDomain sums to a tie.
Round1(score) ==
    LET q == score \div 100
        r == score % 100
    IN  IF r < 50 THEN q * 100
        ELSE IF r > 50 THEN (q + 1) * 100
        ELSE IF q % 2 = 0 THEN q * 100 ELSE (q + 1) * 100

compute_risk_score(cs) ==
    IF cs = <<>> THEN [score |-> 0, level |-> "low"]
    ELSE LET score == Clamp(RawScore(cs))
         IN  [score |-> Round1(score), level |-> LevelOf(score)]

(***************************************************************************)
(* math.cos / math.sin / round                                             *)
(***************************************************************************)

\* n / d rounded to the nearest integer (d > 0)
RoundDiv(n, d) ==
    IF n >= 0 THEN (2 * n + d) \div (2 * d)
    ELSE -((2 * (-n) + d) \div (2 * d))

\* cos of 0..90 whole degrees, in millionths
CosTable ==
    <<1000000, 999848, 999391, 998630, 997564, 996195, 994522, 992546, 990268, 987688,
      984808, 981627, 978148, 974370, 970296, 965926, 961262, 956305, 951057, 945519,
      939693, 933580, 927184, 920505, 913545, 906308, 898794, 891007, 882948, 874620,
      866025, 857167, 848048, 838671, 829038, 819152, 809017, 798636, 788011, 777146,
      766044, 754710, 743145, 731354, 719340, 707107, 694658, 681998, 669131, 656059,
      642788, 629320, 615661, 601815, 587785, 573576, 559193, 544639, 529919, 515038,
      500000, 484810, 469472, 453990, 438371, 422618, 406737, 390731, 374607, 358368,
      342020, 325568, 309017, 292372, 275637, 258819, 241922, 224951, 207912, 190809,
      173648, 156434, 139173, 121869, 104528, 87156, 69756, 52336, 34899, 17452, 0>>

\* cos of an angle in [0, 90] degrees given in 1e-4 degree: the table, interpolated
\* linearly inside a degree (error below 4e-5)
CosQuadrant(a) ==
    LET d == a \div 10000
        f == a % 10000
    IN  IF f = 0 THEN CosTable[d + 1]
        ELSE CosTable[d + 1] - RoundDiv((CosTable[d + 1] - CosTable[d + 2]) * f, 10000)

\* math.cos(math.radians(deg)), deg in 1e-4 degree, result in millionths
Cos(deg) ==
    LET a == (IF deg < 0 THEN -deg ELSE deg) % 3600000
        b == IF a > 1800000 THEN 3600000 - a ELSE a
    IN  IF b <= 900000 THEN CosQuadrant(b) ELSE -CosQuadrant(1800000 - b)

\* math.sin(math.radians(deg))
Sin(deg) == Cos(900000 - deg)

(***************************************************************************)
(* services/geodata.py: the layer snapshot                                 *)
(***************************************************************************)

\* _LAYER_DEFS, in load order (the insertion order of GeoDataService.layers)
LayerDefs ==
    << [id |-> "wind-leases",            name |-> "Offshore Wind Leases",   buffer_km |-> 5],
       [id |-> "marine-protected-areas", name |-> "Marine Protected Areas", buffer_km |-> 5],
       [id |-> "shipping-lanes",         name |-> "Shipping Lanes",         buffer_km |-> 10],
       [id |-> "submarine-cables",       name |-> "Submarine Cables",       buffer_km |-> 2] >>

\* the attribute mapping of the k-th feature of a layer file (feat.get("properties", {}))
FeatureProps(k) ==
    CASE k = 1 -> [key \in {"Site_Name", "NAME"} |-> IF key = "Site_Name" THEN "A" ELSE "n1"]
      [] k = 2 -> [key \in {"LEASE_NUMB", "name"} |-> IF key = "LEASE_NUMB" THEN "" ELSE "B"]
      [] k = 3 -> [key \in {} |-> ""]
      [] OTHER -> [key \in {"OBJECTID"} |-> "D"]

\* CachedLayer.__init__: one (geom, props) pair per valid feature; the geometry is
\* an opaque handle <<layer, k>>
CachedLayer(i, n) ==
    [id |-> LayerDefs[i].id, name |-> LayerDefs[i].name, buffer_km |-> LayerDefs[i].buffer_km,
     geometries |-> [k \in 1..n |-> [geom |-> <<i, k>>, props |-> FeatureProps(k)]]]

\* GeoDataService.load_all: nf[i] features in the i-th file (0 for a missing file)
LoadAll(nf) == [i \in 1..Len(LayerDefs) |-> CachedLayer(i, nf[i])]

(***************************************************************************)
(* services/conflict_engine.py                                             *)
(***************************************************************************)

\* _deg_distance_to_km(deg, lat) = deg * 111.0, then round(dist_km, 1):
\* deg in 1e-3 degree, result in tenths of a km
deg_distance_to_km(deg, at_lat) == RoundDiv(deg * 111, 100)

\* _area_deg2_to_km2(area_deg2, lat), then round(area_km2, 1): area in 1e-3 square
\* degree (at most 200), result in tenths of a km^2
area_deg2_to_km2(area_deg2, at_lat) ==
    LET km_per_deg_lat == 111
        km_per_deg_lon == (111 * Cos(at_lat)) \div 1000      \* thousandths of a km
    IN  RoundDiv(area_deg2 * km_per_deg_lat * km_per_deg_lon, 100000)

NameKeys == <<"Site_Name", "LEASE_NUMB", "NAME", "name", "OBJECTID">>

\* _get_feature_name: the first key present with a truthy value, else the fallback
RECURSIVE FirstName(_, _, _)
FirstName(props, k, fallback) ==
    IF k > Len(NameKeys) THEN fallback
    ELSE IF NameKeys[k] \in DOMAIN props /\ props[NameKeys[k]] # ""
         THEN props[NameKeys[k]]
         ELSE FirstName(props, k + 1, fallback)

get_feature_name(props, fallback) == FirstName(props, 1, fallback)

\* severity = "critical" if layer.id == "marine-protected-areas" else "warning"
OverlapSeverity(layer) ==
    IF layer.id = "marine-protected-areas" THEN "critical" ELSE "warning"

OverlapConflict(layer, feat, area, at_lat) ==
    [layer_id |-> layer.id, layer_name |-> layer.name, type |-> "overlap",
     severity |-> OverlapSeverity(layer),
     detail |-> [text |-> "Overlaps with", km |-> None,
                 name |-> get_feature_name(feat.props, layer.name)],
     overlap_area_km2 |-> Some(area_deg2_to_km2(area, at_lat)),
     distance_km |-> None]

BufferConflict(layer, feat, dist, at_lat) ==
    [layer_id |-> layer.id, layer_name |-> layer.name, type |-> "buffer",
     severity |-> "warning",
     detail |-> [text |-> "Within", km |-> Some(deg_distance_to_km(dist, at_lat)),
                 name |-> get_feature_name(feat.props, layer.name)],
     overlap_area_km2 |-> None,
     distance_km |-> Some(deg_distance_to_km(dist, at_lat))]

\* The body of the try block for one (geom, props) pair.  g[geom] holds what the
\* geometry engine answers for this call's project circle and buffered circle:
\*   intersects  project_circle.intersects(geom):  "yes" | "no" | "raise"
\*   area        project_circle.intersection(geom).area, {} when that raises
\*   buffered    buffered_circle.intersects(geom): "yes" | "no" | "raise"
\*   distance    project_circle.distance(geom),     {} when that raises
\* An exception anywhere in the block leaves the feature without a conflict.
CheckFeatureBoth(layer, feat, g, at_lat) ==
    LET r == g[feat.geom]
    IN  (IF r.intersects = "yes" /\ r.area # None
         THEN <<OverlapConflict(layer, feat, Get(r.area), at_lat)>> ELSE <<>>)
        \o
        (IF r.intersects # "raise" /\ r.buffered = "yes" /\ r.distance # None
         THEN <<BufferConflict(layer, feat, Get(r.distance), at_lat)>> ELSE <<>>)

CheckFeature(layer, feat, g, at_lat) ==
    LET r == g[feat.geom]
    IN  IF r.intersects = "raise" THEN <<>>
        ELSE IF r.intersects = "yes"
        THEN IF r.area = None THEN <<>>
             ELSE <<OverlapConflict(layer, feat, Get(r.area), at_lat)>>
        ELSE IF r.buffered = "raise" THEN <<>>
        ELSE IF r.buffered = "yes"
        THEN IF r.distance = None THEN <<>>
             ELSE <<BufferConflict(layer, feat, Get(r.distance), at_lat)>>
        ELSE <<>>

\* whether the try block raises for this feature
Raises(r) ==
    \/ r.intersects = "raise"
    \/ r.intersects = "yes" /\ r.area = None
    \/ r.intersects = "no" /\ r.buffered = "raise"
    \/ r.intersects = "no" /\ r.buffered = "yes" /\ r.distance = None

\* a loop in which an exception ends the layer (break) instead of the feature
RECURSIVE CheckFeaturesAbort(_, _, _, _)
CheckFeaturesAbort(layer, k, g, at_lat) ==
    IF k > Len(layer.geometries) THEN <<>>
    ELSE IF Raises(g[layer.geometries[k].geom]) THEN <<>>
    ELSE CheckFeature(layer, layer.geometries[k], g, at_lat)
         \o CheckFeaturesAbort(layer, k + 1, g, at_lat)

\* for geom, props in layer.geometries: try ... except Exception: continue
RECURSIVE CheckFeatures(_, _, _, _)
CheckFeatures(layer, k, g, at_lat) ==
    IF k > Len(layer.geometries) THEN <<>>
    ELSE CheckFeature(layer, layer.geometries[k], g, at_lat)
         \o CheckFeatures(layer, k + 1, g, at_lat)

\* ConflictEngine._check_layer
check_layer(layer, g, at_lat) == CheckFeatures(layer, 1, g, at_lat)

\* for layer in layers.values(): conflicts.extend(self._check_layer(...))
RECURSIVE AllLayers(_, _, _, _)
AllLayers(ls, i, g, at_lat) ==
    IF i > Len(ls) THEN <<>>
    ELSE check_layer(ls[i], g, at_lat) \o AllLayers(ls, i + 1, g, at_lat)

\* severity_order.get(c.severity, 3)
SeverityOrder(severity) ==
    CASE severity = "critical" -> 0
      [] severity = "warning"  -> 1
      [] severity = "info"     -> 2
      [] OTHER                 -> 3

OfRank(cs, r) == SelectSeq(cs, LAMBDA c : SeverityOrder(c.severity) = r)

Reverse(cs) == [i \in 1..Len(cs) |-> cs[Len(cs) + 1 - i]]

\* a sort that orders by severity but returns ties in reverse
SortUnstable(cs) ==
    Reverse(OfRank(cs, 0)) \o Reverse(OfRank(cs, 1)) \o Reverse(OfRank(cs, 2))
    \o Reverse(OfRank(cs, 3))

\* conflicts.sort(key=...): list.sort is stable, the key has four values
SortBySeverity(cs) == OfRank(cs, 0) \o OfRank(cs, 1) \o OfRank(cs, 2) \o OfRank(cs, 3)

\* ConflictEngine.check_conflicts(lat, lon, radius_km, layers), the engine answering g
check_conflicts(at_lat, at_lon, radius, ls, g) ==
    SortBySeverity(AllLayers(ls, 1, g, at_lat))

(***************************************************************************)
(* services/recommender.py                                                 *)
(***************************************************************************)

DIRECTIONS == <<0, 45, 90, 135, 180, 225, 270, 315>>
DISTANCES_KM == <<10, 20, 30>>

\* the candidates of the nested for loops, numbered 1..24 in iteration order
NumCandidates == Len(DIRECTIONS) * Len(DISTANCES_KM)
BearingOf(n) == DIRECTIONS[((n - 1) \div Len(DISTANCES_KM)) + 1]
DistOf(n) == DISTANCES_KM[((n - 1) % Len(DISTANCES_KM)) + 1]

\* _offset_point: d_lat = dist/111*cos(bearing), d_lon = dist/(111*cos(lat))*sin(bearing),
\* both sums rounded to 4 decimals (the site is on the 1e-4 grid)
offset_point(at_lat, at_lon, bearing_deg, dist_km) ==
    LET d_lat == RoundDiv(dist_km * Cos(bearing_deg * 10000), 11100)
        d_lon == RoundDiv(dist_km * Sin(bearing_deg * 10000) * 10,
                          (111 * Cos(at_lat)) \div 1000)
    IN  [lat |-> at_lat + d_lat, lon |-> at_lon + d_lon]

InBoxNoLonCheck(p) == ~(p.lat < 240000 \/ p.lat > 500000)

\* the negation of: new_lat < 24 or new_lat > 50 or new_lon < -82 or new_lon > -60
InBox(p) == ~(p.lat < 240000 \/ p.lat > 500000 \/ p.lon < -820000 \/ p.lon > -600000)

\* _bearing_to_name
bearing_to_name(bearing) ==
    CASE bearing = 0   -> "N"
      [] bearing = 45  -> "NE"
      [] bearing = 90  -> "E"
      [] bearing = 135 -> "SE"
      [] bearing = 180 -> "S"
      [] bearing = 225 -> "SW"
      [] bearing = 270 -> "W"
      [] bearing = 315 -> "NW"
      [] OTHER         -> ""

\* the f-string of lines 65-71; avoided is formatted with no decimals
Reasoning(dist, bearing, orig, score, cs) ==
    [text |-> "Moving", dist |-> dist, direction |-> bearing_to_name(bearing),
     from |-> orig, to |-> score,
     avoided |-> IF cs # <<>> THEN Some(RoundDiv(orig - score, 1000)) ELSE None]

ImprovesOrTies(score, best) == score <= best

\* if score < best_score
Improves(score, best) == score < best

NoRecommendation(why) ==
    [action |-> "none", suggested_lat |-> None, suggested_lon |-> None,
     new_risk_score |-> None, reasoning |-> [text |-> why]]

LowRiskThresholdExclusive(orig) == orig < 15000

\* if original_score <= 15
AlreadyLowRisk(orig) == orig <= 15000

(***************************************************************************)
(* Bounds and input domains                                                *)
(***************************************************************************)

\* longest conflict list handed to the scorer directly
MaxConflicts == 2
\* most features in a snapshot handed to the detector directly
MaxFeatures == 3
\* most features in a snapshot the relocation search runs against
MaxSearchFeatures == 1

Severities == {"critical", "warning", "info", "unknown"}
LayerIds == {"marine-protected-areas", "shipping-lanes", "submarine-cables",
             "wind-leases", "other-layer"}
\* overlap_area_km2 values: zero, negative, 223.0 km^2 and a very large area
Areas == {0, -50000, 2230, 10000000}

ScorerConflict(sev, lid, area) ==
    [layer_id |-> lid, layer_name |-> lid, type |-> "overlap", severity |-> sev,
     detail |-> [text |-> "Overlaps with", km |-> None, name |-> lid],
     overlap_area_km2 |-> area, distance_km |-> None]

\* every severity on every layer without an area, and four typical conflicts with
\* every area
ConflictDomain ==
    {ScorerConflict(sev, lid, None) : sev \in Severities, lid \in LayerIds}
    \cup {ScorerConflict(p[1], p[2], Some(a)) :
            p \in {<<"critical", "marine-protected-areas">>, <<"warning", "shipping-lanes">>,
                   <<"warning", "wind-leases">>, <<"unknown", "other-layer">>},
            a \in Areas}

RECURSIVE ListsUpTo(_, _)
ListsUpTo(S, n) ==
    IF n = 0 THEN {<<>>}
    ELSE LET shorter == ListsUpTo(S, n - 1)
         IN  shorter \cup {Append(l, x) : l \in shorter, x \in S}

RECURSIVE SumTo(_, _)
SumTo(f, n) == IF n = 0 THEN 0 ELSE f[n] + SumTo(f, n - 1)

\* feature counts per layer file, at most n features in all
Counts(n) == {nf \in [1..Len(LayerDefs) -> 0..n] : SumTo(nf, Len(LayerDefs)) <= n}

\* the geometry handles of a snapshot
Handles(ls) ==
    UNION {{ls[i].geometries[k].geom : k \in 1..Len(ls[i].geometries)} : i \in 1..Len(ls)}

Resp(ix, area, bix, dist) ==
    [intersects |-> ix, area |-> area, buffered |-> bix, distance |-> dist]

\* intersection areas (1e-3 square degree) and separations (1e-3 degree) the engine returns
AreasDeg2 == {0, 24}
DistancesDeg == {27}

\* what the geometry engine can answer for one feature: far away, overlapping (a
\* touching or line feature has area 0), within the buffer, or raising in any of
\* the four operations
Responses ==
    {Resp("no", None, "no", None), Resp("raise", None, "no", None),
     Resp("yes", None, "yes", Some(0)), Resp("no", None, "raise", None),
     Resp("no", None, "yes", None)}
    \cup {Resp("yes", Some(a), "yes", Some(0)) : a \in AreasDeg2}
    \cup {Resp("no", None, "yes", Some(d)) : d \in DistancesDeg}

\* the answers drawn while a request is served: far, overlapping, near (a raising
\* operation leaves the feature without a conflict, as a far one does)
SearchResponses ==
    {Resp("no", None, "no", None), Resp("yes", Some(24), "yes", Some(0)),
     Resp("no", None, "yes", Some(27))}

\* snapshots a request is served against: at most one feature in each of the
\* protected-areas and cables files, at most n in all
SearchCounts(n) ==
    {nf \in Counts(n) : nf[1] = 0 /\ nf[3] = 0 /\ nf[2] <= 1 /\ nf[4] <= 1}

Site(la, lo, r) == [lat |-> la, lon |-> lo, radius_km |-> r]

\* sites: mid-box; just inside the north-east corner (10 km north lands on 50.0000);
\* just north of the box; far outside the box
Sites ==
    {Site(400000, -700000, 5), Site(499099, -601000, 5),
     Site(501000, -700000, 5), Site(100000, 0, 5)}

OriginalScores == {0, 15000, 15100, 22500, 52500}

NoGeo == <<>>
NoProbe == [lat |-> 0, lon |-> 0, radius_km |-> 0]
NoRec == [action |-> "", suggested_lat |-> None, suggested_lon |-> None,
          new_risk_score |-> None, reasoning |-> [text |-> ""]]

(***************************************************************************)
(* State machine                                                           *)
(***************************************************************************)

ScorerIdle ==
    /\ risk_score = 0 /\ risk_level = "low" /\ prev_score = 0 /\ prev_level = "low"

SearchIdle ==
    /\ original_score = 0 /\ cand = 0
    /\ best_score = 0 /\ best_lat = 0 /\ best_lon = 0 /\ best_reasoning = [text |-> ""]
    /\ best_geo = NoGeo
    /\ rec = NoRec /\ detector_calls = 0 /\ scorer_calls = 0
    /\ min_seen = None /\ min_seen_at = 0

scorer_vars == <<risk_score, risk_level, prev_score, prev_level>>
site_vars == <<lat, lon, radius_km>>
search_vars == <<original_score, cand, best_score, best_lat, best_lon, best_reasoning,
                 best_geo, rec, detector_calls, scorer_calls, min_seen, min_seen_at>>

\* ---- compute_risk_score called on a conflict list ----

InitScorer ==
    /\ pc = "ready"
    /\ conflicts \in ListsUpTo(ConflictDomain, MaxConflicts)
    /\ layers = LoadAll([i \in 1..Len(LayerDefs) |-> 0])
    /\ geo = NoGeo
    /\ probe = NoProbe
    /\ lat = 0 /\ lon = 0 /\ radius_km = 0
    /\ ScorerIdle /\ SearchIdle

\* score, level = compute_risk_score(conflicts)
Score ==
    /\ pc = "ready"
    /\ risk_score' = compute_risk_score(conflicts).score
    /\ risk_level' = compute_risk_score(conflicts).level
    /\ pc' = "scored"
    /\ UNCHANGED <<layers, geo, probe, conflicts, prev_score, prev_level, site_vars, search_vars>>

\* the same list with one more conflict, scored again
AppendAndScore ==
    /\ pc = "scored"
    /\ Len(conflicts) < MaxConflicts
    /\ \E c \in ConflictDomain :
         /\ conflicts' = Append(conflicts, c)
         /\ risk_score' = compute_risk_score(Append(conflicts, c)).score
         /\ risk_level' = compute_risk_score(Append(conflicts, c)).level
    /\ prev_score' = risk_score
    /\ prev_level' = risk_level
    /\ pc' = "appended"
    /\ UNCHANGED <<layers, geo, probe, site_vars, search_vars>>

NextScorer == Score \/ AppendAndScore

ScorerSpec == InitScorer /\ [][NextScorer]_vars

\* ---- ConflictEngine.check_conflicts called on a site ----

InitDetector ==
    /\ pc = "ready"
    /\ layers \in {LoadAll(nf) : nf \in Counts(MaxFeatures)}
    /\ \E s \in {Site(400000, -700000, 5), Site(100000, 0, 200)} :
         lat = s.lat /\ lon = s.lon /\ radius_km = s.radius_km
    /\ conflicts = <<>>
    /\ geo = NoGeo
    /\ probe = NoProbe
    /\ ScorerIdle /\ SearchIdle

\* conflicts = engine.check_conflicts(lat, lon, radius_km, layers)
CheckConflicts ==
    /\ pc = "ready"
    /\ \E g \in [Handles(layers) -> Responses] :
         /\ geo' = g
         /\ probe' = Site(lat, lon, radius_km)
         /\ conflicts' = check_conflicts(lat, lon, radius_km, layers, g)
    /\ pc' = "checked"
    /\ UNCHANGED <<layers, scorer_vars, site_vars, search_vars>>

NextDetector == CheckConflicts

DetectorSpec == InitDetector /\ [][NextDetector]_vars

\* ---- routes/analysis.py conflict_check and find_recommendation ----

Init ==
    /\ pc = "idle"
    /\ layers \in {LoadAll(nf) : nf \in SearchCounts(MaxSearchFeatures)}
    /\ conflicts = <<>>
    /\ geo = NoGeo
    /\ probe = NoProbe
    /\ lat = 0 /\ lon = 0 /\ radius_km = 0
    /\ ScorerIdle /\ SearchIdle

\* find_recommendation, lines 36-45: the early return, else the loop's initial state
StartSearch(s, orig) ==
    /\ lat' = s.lat /\ lon' = s.lon /\ radius_km' = s.radius_km
    /\ original_score' = orig
    /\ cand' = 0 /\ detector_calls' = 0 /\ scorer_calls' = 0
    /\ min_seen' = None /\ min_seen_at' = 0
    /\ IF AlreadyLowRisk(orig)
       THEN /\ rec' = NoRecommendation("Current location already has low risk.")
            /\ pc' = "done"
            /\ UNCHANGED <<best_score, best_lat, best_lon, best_reasoning, best_geo>>
       ELSE /\ best_score' = orig
            /\ best_lat' = s.lat
            /\ best_lon' = s.lon
            /\ best_reasoning' = [text |-> ""]
            /\ best_geo' = NoGeo
            /\ rec' = NoRec
            /\ pc' = "search"

\* find_recommendation(lat, lon, radius_km, original_score, layers, engine) called
\* with any original score
FindRecommendation ==
    /\ pc = "idle"
    /\ \E s \in Sites, orig \in OriginalScores : StartSearch(s, orig)
    /\ UNCHANGED <<layers, geo, probe, conflicts, scorer_vars>>

\* conflict_check: detect at the site, score, then find_recommendation with that score
ConflictCheck ==
    /\ pc = "idle"
    /\ \E s \in Sites, g \in [Handles(layers) -> SearchResponses] :
         LET cs == check_conflicts(s.lat, s.lon, s.radius_km, layers, g)
             res == compute_risk_score(cs)
         IN  /\ conflicts' = cs
             /\ geo' = g
             /\ probe' = s
             /\ risk_score' = res.score
             /\ risk_level' = res.level
             /\ StartSearch(s, res.score)
    /\ UNCHANGED <<layers, prev_score, prev_level>>

\* the candidate the loops are about to take
NextCandidate == offset_point(lat, lon, BearingOf(cand + 1), DistOf(cand + 1))

\* one iteration whose candidate fails the bounds check: continue
SkipCandidate ==
    /\ pc = "search"
    /\ cand < NumCandidates
    /\ ~InBox(NextCandidate)
    /\ cand' = cand + 1
    /\ UNCHANGED <<pc, layers, geo, probe, conflicts, scorer_vars, site_vars, original_score,
                   best_score, best_lat, best_lon, best_reasoning, best_geo, rec,
                   detector_calls, scorer_calls, min_seen, min_seen_at>>

\* one iteration whose candidate is evaluated: lines 55-71
EvalCandidate ==
    /\ pc = "search"
    /\ cand < NumCandidates
    /\ InBox(NextCandidate)
    /\ \E g \in [Handles(layers) -> SearchResponses] :
         LET p == NextCandidate
             cs == check_conflicts(p.lat, p.lon, radius_km, layers, g)
             score == compute_risk_score(cs).score
         IN  /\ probe' = Site(p.lat, p.lon, radius_km)
             /\ IF Improves(score, best_score)
                THEN /\ best_score' = score
                     /\ best_lat' = p.lat
                     /\ best_lon' = p.lon
                     /\ best_reasoning' =
                          Reasoning(DistOf(cand + 1), BearingOf(cand + 1),
                                    original_score, score, cs)
                     /\ best_geo' = g
                ELSE UNCHANGED <<best_score, best_lat, best_lon, best_reasoning, best_geo>>
             /\ IF min_seen = None \/ score < Get(min_seen)
                THEN min_seen' = Some(score) /\ min_seen_at' = cand + 1
                ELSE UNCHANGED <<min_seen, min_seen_at>>
    /\ detector_calls' = detector_calls + 1
    /\ scorer_calls' = scorer_calls + 1
    /\ cand' = cand + 1
    /\ UNCHANGED <<pc, layers, geo, conflicts, scorer_vars, site_vars, original_score, rec>>

\* lines 79-85 with the two coordinates exchanged
RelocateSwapped(b_lat, b_lon, b_score, reasoning) ==
    [action |-> "relocate", suggested_lat |-> Some(b_lon), suggested_lon |-> Some(b_lat),
     new_risk_score |-> Some(b_score), reasoning |-> reasoning]

\* the Recommendation of lines 79-85
Relocate(b_lat, b_lon, b_score, reasoning) ==
    [action |-> "relocate", suggested_lat |-> Some(b_lat), suggested_lon |-> Some(b_lon),
     new_risk_score |-> Some(b_score), reasoning |-> reasoning]

\* after the loops: lines 73-85
Return ==
    /\ pc = "search"
    /\ cand = NumCandidates
    /\ rec' = IF best_score >= original_score
              THEN NoRecommendation("No significantly lower-risk location found within 30km.")
              ELSE Relocate(best_lat, best_lon, best_score, best_reasoning)
    /\ pc' = "done"
    /\ UNCHANGED <<layers, geo, probe, conflicts, scorer_vars, site_vars, original_score, cand,
                   best_score, best_lat, best_lon, best_reasoning, best_geo,
                   detector_calls, scorer_calls, min_seen, min_seen_at>>

\* the answers the geometry engine gives for a circle at p: the engine is a function
\* of the circle and the geometry, so at the position the search kept as best it
\* answers what it answered there; anywhere else it may answer anything
AnswersAt(p) ==
    IF best_score < original_score /\ p = Site(best_lat, best_lon, radius_km)
    THEN {best_geo}
    ELSE [Handles(layers) -> SearchResponses]

\* the suggested site of a relocate recommendation sent back to conflict_check
\* with the original radius: detection and scoring there, lines 30-38
Resubmit ==
    /\ pc = "done"
    /\ rec.action = "relocate"
    /\ LET p == Site(Get(rec.suggested_lat), Get(rec.suggested_lon), radius_km)
       IN  \E g \in AnswersAt(p) :
             LET cs == check_conflicts(p.lat, p.lon, p.radius_km, layers, g)
                 res == compute_risk_score(cs)
             IN  /\ conflicts' = cs
                 /\ geo' = g
                 /\ probe' = p
                 /\ risk_score' = res.score
                 /\ risk_level' = res.level
    /\ pc' = "resubmitted"
    /\ UNCHANGED <<layers, prev_score, prev_level, site_vars, search_vars>>

Next ==
    \/ FindRecommendation \/ ConflictCheck \/ SkipCandidate \/ EvalCandidate \/ Return
    \/ Resubmit

Spec == Init /\ [][Next]_vars

(***************************************************************************)
(* Properties of compute_risk_score (ScorerSpec)                           *)
(***************************************************************************)

Scored == pc \in {"scored", "appended"}

LevelRank(level) ==
    CASE level = "low" -> 0 [] level = "medium" -> 1 [] level = "high" -> 2
      [] level = "critical" -> 3

\* C1: the returned level is the level of the returned (rounded) score under the
\* boundary-inclusive thresholds 75 / 50 / 25.  The code takes the level before it
\* rounds, so a raw score in [74.95, 75) is returned as (75.0, "high").
C1_LevelOfReturnedScore == Scored => risk_level = LevelOf(risk_score)

\* C2: the returned score lies in [0, 100] for every conflict list.
C2_ScoreInRange == Scored => (risk_score >= 0 /\ risk_score <= 100000)

\* a list whose raw sum exceeds 100 has been scored, one of its conflicts carrying
\* an unrecognized severity or a negative area
C2_Witness ==
    /\ Scored
    /\ RawScore(conflicts) > 100000
    /\ risk_score = 100000
    /\ \E i \in 1..Len(conflicts) :
         \/ conflicts[i].severity = "unknown"
         \/ conflicts[i].overlap_area_km2 = Some(-50000)

\* C6: appending a conflict never lowers the score nor the level.
C6_Monotone ==
    pc = "appended" =>
        /\ risk_score >= prev_score
        /\ LevelRank(risk_level) >= LevelRank(prev_level)

\* a conflict with a negative area was appended to a non-empty list and the level rose
C6_Witness ==
    /\ pc = "appended"
    /\ Len(conflicts) >= 2
    /\ conflicts[Len(conflicts)].overlap_area_km2 = Some(-50000)
    /\ risk_score > prev_score
    /\ LevelRank(risk_level) > LevelRank(prev_level)

(***************************************************************************)
(* Properties of check_conflicts (DetectorSpec)                            *)
(***************************************************************************)

Checked == pc = "checked"

LayerIndex(layer_id) == CHOOSE i \in 1..Len(layers) : layers[i].id = layer_id

\* the feature a conflict was made for: its layer and its place in the layer
\* (feature names are distinct inside a layer of the snapshots used here)
FeatureOf(c) ==
    LET i == LayerIndex(c.layer_id)
    IN  <<i, CHOOSE k \in 1..Len(layers[i].geometries) :
                get_feature_name(layers[i].geometries[k].props, layers[i].name)
                    = c.detail.name>>

\* f comes before h in layer iteration order, then feature order
Before(f, h) == f[1] < h[1] \/ (f[1] = h[1] /\ f[2] < h[2])

FeatureCount == Cardinality(Handles(layers))

\* C5: critical conflicts precede warnings, warnings precede infos, and conflicts
\* of equal severity keep layer iteration order and feature order.
C5_SortedStable ==
    Checked =>
        \A i, j \in 1..Len(conflicts) :
            i < j =>
                /\ SeverityOrder(conflicts[i].severity) <= SeverityOrder(conflicts[j].severity)
                /\ conflicts[i].severity = conflicts[j].severity
                     => Before(FeatureOf(conflicts[i]), FeatureOf(conflicts[j]))

\* the sort moved a critical conflict in front of a wind-lease warning, and two
\* warnings of one layer and a warning of a later layer kept their order
C5_Witness ==
    /\ Checked
    /\ Len(conflicts) = 3
    /\ conflicts[1].severity = "critical"
    /\ conflicts[2].layer_id = "wind-leases"
    /\ conflicts[3].severity = "warning"
    /\ conflicts[3].layer_id \in {"wind-leases", "shipping-lanes"}

\* the snapshot without the features whose try block raised
WithoutFailing(ls, g) ==
    [i \in 1..Len(ls) |->
        [ls[i] EXCEPT !.geometries = SelectSeq(@, LAMBDA f : ~Raises(g[f.geom]))]]

\* C7: a feature on which the geometry engine raises contributes nothing, and the
\* result is the one the same call gives with the failing features absent.
C7_FailureIsolated ==
    Checked =>
        /\ \A i \in 1..Len(conflicts) : ~Raises(geo[FeatureOf(conflicts[i])])
        /\ conflicts = check_conflicts(lat, lon, radius_km, WithoutFailing(layers, geo), geo)

\* the first feature of a layer raised, a later feature of that layer and a
\* feature of another layer still gave their conflicts
C7_Witness ==
    /\ Checked
    /\ \E i \in 1..Len(layers) :
         /\ Len(layers[i].geometries) >= 2
         /\ Raises(geo[<<i, 1>>])
         /\ \E n \in 1..Len(conflicts) : FeatureOf(conflicts[n]) = <<i, 2>>
         /\ \E n \in 1..Len(conflicts) : FeatureOf(conflicts[n])[1] # i

\* C10: each feature yields at most one conflict; an overlap (area set, no
\* distance) when the project disc intersects it, else a buffer conflict (distance
\* set, no area) when the buffered disc does; overlaps are critical on the
\* protected-areas layer and warning elsewhere, buffer conflicts are warnings; there
\* are never more conflicts than features.
C10_OnePerFeature ==
    Checked =>
        /\ Len(conflicts) <= FeatureCount
        /\ \A i, j \in 1..Len(conflicts) :
             i # j => FeatureOf(conflicts[i]) # FeatureOf(conflicts[j])
        /\ \A i \in 1..Len(conflicts) :
             LET c == conflicts[i]
                 r == geo[FeatureOf(c)]
             IN  \/ /\ c.type = "overlap"
                    /\ r.intersects = "yes"
                    /\ c.overlap_area_km2 # None /\ c.distance_km = None
                    /\ c.severity = IF c.layer_id = "marine-protected-areas"
                                    THEN "critical" ELSE "warning"
                 \/ /\ c.type = "buffer"
                    /\ r.intersects = "no" /\ r.buffered = "yes"
                    /\ c.distance_km # None /\ c.overlap_area_km2 = None
                    /\ c.severity = "warning"
        /\ \A h \in Handles(layers) :
             LET of_h == {i \in 1..Len(conflicts) : FeatureOf(conflicts[i]) = h}
             IN  /\ (geo[h].intersects = "yes" /\ geo[h].area # None)
                      => \E i \in of_h : conflicts[i].type = "overlap"
                 /\ (geo[h].intersects = "no" /\ geo[h].buffered = "yes"
                        /\ geo[h].distance # None)
                      => \E i \in of_h : conflicts[i].type = "buffer"
                 /\ (geo[h].intersects = "no" /\ geo[h].buffered = "no") => of_h = {}

\* an overlap on the protected-areas layer, an overlap elsewhere and a buffer
\* conflict were returned together
C10_Witness ==
    /\ Checked
    /\ \E i, j, k \in 1..Len(conflicts) :
         /\ conflicts[i].type = "overlap" /\ conflicts[i].severity = "critical"
         /\ conflicts[j].type = "overlap" /\ conflicts[j].severity = "warning"
         /\ conflicts[k].type = "buffer"

(***************************************************************************)
(* Properties of find_recommendation (Spec)                                *)
(***************************************************************************)

Searching == pc \in {"search", "done"} /\ original_score > 15000

\* the regional box lat in [24, 50], lon in [-82, -60]
InRegion(la, lo) == la >= 240000 /\ la <= 500000 /\ lo >= -820000 /\ lo <= -600000

Candidate(n) == offset_point(lat, lon, BearingOf(n), DistOf(n))

\* the candidates among the first n that lie in the regional box
InRegionUpTo(n) == {k \in 1..n : InRegion(Candidate(k).lat, Candidate(k).lon)}

\* C3: a relocate recommendation suggests coordinates inside the regional box; no
\* candidate outside the box is handed to the detector or becomes the best one.
C3_RelocateInRegion ==
    /\ rec.action = "relocate"
         => InRegion(Get(rec.suggested_lat), Get(rec.suggested_lon))
    /\ (Searching /\ detector_calls > 0) => InRegion(probe.lat, probe.lon)
    /\ (Searching /\ best_score < original_score) => InRegion(best_lat, best_lon)

\* a site north of the box was moved into it
C3_Witness ==
    /\ pc = "done"
    /\ rec.action = "relocate"
    /\ ~InRegion(lat, lon)
    /\ cand - detector_calls > 0

\* at or below 15 the call returns at once with nothing evaluated; above 15 the
\* detector and the scorer ran once for each candidate of the box consumed so far
C4_Calls ==
    /\ (pc = "done" /\ original_score <= 15000) =>
          /\ rec = NoRecommendation("Current location already has low risk.")
          /\ detector_calls = 0 /\ scorer_calls = 0 /\ cand = 0
    /\ Searching =>
          /\ cand <= 24
          /\ detector_calls = Cardinality(InRegionUpTo(cand))
          /\ scorer_calls = detector_calls
          /\ detector_calls <= 24
          /\ pc = "done" => cand = 24

\* every step of a running search consumes one candidate or returns
C4_Progress ==
    pc = "search" =>
        \/ cand' = cand + 1 /\ pc' = "search"
        \/ cand = 24 /\ pc' = "done" /\ rec'.action \in {"none", "relocate"}

\* C4: with original_score <= 15 (15 included) the result is action none with no
\* coordinates and no new score, and neither detector nor scorer is invoked; with
\* original_score > 15 there is one detector and one scorer invocation per in-box
\* candidate, at most 24, and the call returns after the 24th candidate.
C4_EarlyReturnAndBound == []C4_Calls /\ [][C4_Progress]_vars

\* the pipeline scored the site at exactly 15.0 and the search was not started
C4_Witness ==
    /\ pc = "done"
    /\ conflicts # <<>>
    /\ original_score = 15000
    /\ rec.action = "none"

\* C8: every relocate reasoning carries the risk-point delta avoided.  The code
\* appends it only when the chosen candidate itself has conflicts.
C8_RelocateNamesDelta == rec.action = "relocate" => rec.reasoning.avoided # None

\* C9: above 15, relocate is returned exactly when some evaluated candidate scored
\* below original_score; the candidate returned is then the first, in iteration
\* order, with the lowest score of all evaluated candidates; otherwise none.
C9_FirstMinimum ==
    (pc = "done" /\ original_score > 15000) =>
        IF min_seen # None /\ Get(min_seen) < original_score
        THEN /\ rec.action = "relocate"
             /\ rec.new_risk_score = min_seen
             /\ rec.suggested_lat = Some(Candidate(min_seen_at).lat)
             /\ rec.suggested_lon = Some(Candidate(min_seen_at).lon)
        ELSE rec = NoRecommendation("No significantly lower-risk location found within 30km.")

\* against a snapshot without features all 24 candidates scored 0.0, and the first
\* of them (10 km north) was returned
C9_Witness ==
    /\ pc = "done"
    /\ rec.action = "relocate"
    /\ Handles(layers) = {}
    /\ detector_calls = 24
    /\ min_seen_at = 1
    /\ rec.suggested_lat = Some(Candidate(1).lat)

\* C11: a relocate recommendation carries a new_risk_score strictly below
\* original_score; check_conflicts followed by compute_risk_score at the suggested
\* coordinates, with the original radius and the same snapshot, yields exactly
\* new_risk_score; and no step of the search changes the snapshot.
C11_Reproduced ==
    /\ rec.action = "relocate" => Get(rec.new_risk_score) < original_score
    /\ pc = "resubmitted" =>
         /\ probe = Site(Get(rec.suggested_lat), Get(rec.suggested_lon), radius_km)
         /\ risk_score = Get(rec.new_risk_score)

C11_SnapshotKept == layers' = layers

C11_ResubmitReproduces == []C11_Reproduced /\ [][C11_SnapshotKept]_vars

\* a relocation to a site that still has a conflict was re-submitted
C11_Witness ==
    /\ pc = "resubmitted"
    /\ rec.action = "relocate"
    /\ conflicts # <<>>
    /\ risk_score > 0
    /\ detector_calls = NumCandidates

====
